---- MODULE Spec2Model ----
(***************************************************************************)
(* The VoiceRecorder component of react-voice-recorder                     *)
(* (src/src/component/VoiceRecorder.tsx) as a state machine.               *)
(*                                                                         *)
(* The component is single-threaded and event-driven.  Every action below  *)
(* is one task of the event loop: a click on the button, the resolution or *)
(* rejection of a getUserMedia promise, a dataavailable event, the stop    *)
(* event of a MediaRecorder, a firing of the 100 ms interval, a change of  *)
(* the duration prop, the unmount.  A state update made by a handler is    *)
(* committed together with the handler: the re-render and the effects it   *)
(* triggers are part of the action.                                        *)
(*                                                                         *)
(* Spec is the component on a platform whose encoder does not fail.        *)
(* ConfigSpec starts one recording under every compression level and every *)
(* set of supported types, BlobSpec records chunks of several sizes, and   *)
(* FaultSpec adds the platform stopping a recorder after an encoder error. *)
(*                                                                         *)
(* Every call of startRecording creates one entry of `sessions`; the entry *)
(* holds what belongs to that call alone: its getUserMedia request, the    *)
(* MediaStream it was granted, the MediaRecorder it created, and the       *)
(* values its closures captured.  The refs of the component are shared by  *)
(* all calls, as in the source.                                            *)
(***************************************************************************)
EXTENDS Integers, Sequences, FiniteSets, TLC

(* ---------------- bounds of the model ---------------- *)

\* calls of startRecording in one run
MaxSessions == 2
\* chunks in the chunk list
MaxChunks == 1
\* steps of the clock after the latest start
MaxSteps == 2
\* calls of startRecording in one run of ConfigSpec, BlobSpec and FaultSpec
MaxConfigSessions == 1
\* chunks in the chunk list in BlobSpec
MaxBlobChunks == 2

(* ---------------- program constants ---------------- *)

\* window.setInterval(..., 100)
IntervalMs == 100
\* (Date.now() - startTimeRef.current) / 1000
MsPerSecond == 1000
\* the clock is looked at every ClockStep ms: every tenth firing of the interval
ClockStep == 10 * IntervalMs
\* Math.round(audioBlob.size / 1024)
BytesPerKB == 1024

Null == "null"
NoRef == 0
NoTime == -1

UnsupportedMessage == "Audio recording is not supported in this browser."
MicrophoneMessage == "Could not access microphone"

Levels == {"none", "low", "medium", "high"}
\* what a caller can pass as compressionLevel: a level, nothing, or another string
Undefined == "undefined"
LevelProps == Levels \cup {Undefined, "ultra"}

\* compressionLevel = 'medium' in the parameter list: the default replaces undefined only
DefaultCompressionLevel(prop) == IF prop = Undefined THEN "medium" ELSE prop

\* audioBitsPerSecond: undefined
Unset == 0

compressionSettings ==
  [l \in Levels |->
     CASE l = "none"   -> [mimeType |-> "audio/wav",  audioBitsPerSecond |-> Unset]
       [] l = "low"    -> [mimeType |-> "audio/webm", audioBitsPerSecond |-> 96000]
       [] l = "medium" -> [mimeType |-> "audio/webm", audioBitsPerSecond |-> 64000]
       [] l = "high"   -> [mimeType |-> "audio/webm", audioBitsPerSecond |-> 32000]]

\* compressionSettings[compressionLevel] is undefined for a key the table lacks;
\* reading .mimeType of it throws a TypeError
SettingThrows(level) == level \notin DOMAIN compressionSettings

options == <<"audio/webm", "audio/ogg", "audio/mp4", "audio/wav">>

RECURSIVE FirstSupported(_, _)
FirstSupported(types, supported) ==
  IF types = <<>> THEN ""
  ELSE IF Head(types) \in supported THEN Head(types)
  ELSE FirstSupported(Tail(types), supported)

\* a resolver that goes through the fallback list without trying the level's type
getSupportedMimeTypeFallbackOnly(level, supported) == FirstSupported(options, supported)

getSupportedMimeType(level, supported) ==
  LET setting == compressionSettings[level]
  IN IF setting.mimeType # "" /\ setting.mimeType \in supported
     THEN setting.mimeType
     ELSE FirstSupported(options, supported)

\* a start that never sets options.audioBitsPerSecond
RecorderBitrateNever(level) == Unset

\* options.audioBitsPerSecond of the MediaRecorder, Unset when the key is not set
RecorderBitrate(level) ==
  LET setting == compressionSettings[level]
  IN IF level # "none" /\ setting.audioBitsPerSecond # Unset
     THEN setting.audioBitsPerSecond
     ELSE Unset


(* ---------------- inputs ---------------- *)

\* the duration prop, in seconds
Durations == {1, 2}
\* event.data.size of a dataavailable event, in bytes
ChunkSizes == {0, 512}
\* the answers of MediaRecorder.isTypeSupported: the set of supported types
\* the sizes of BlobSpec: a byte, just below and at half a KB, one and a half KB
BlobSizes == {0, 1, 511, 512, 1536}
Platforms == SUBSET {"audio/webm", "audio/ogg", "audio/mp4", "audio/wav"}

(* ---------------- state ---------------- *)

VARIABLES
  mounted,           \* the component is mounted
  onDataRecorded,    \* prop: TRUE when the caller passed a callback
  duration,          \* prop
  compressionLevel,  \* prop, after the default
  isTypeSupported,   \* platform: the types MediaRecorder.isTypeSupported accepts
  isRecording,       \* useState
  error,             \* useState
  isSupported,       \* useState, after the mount effect
  mediaRecorderRef,  \* useRef: the session whose MediaRecorder it holds, or NoRef
  audioChunksRef,    \* useRef: the chunk list
  streamRef,         \* useRef: the session whose MediaStream it holds, or NoRef
  timerRef,          \* the interval behind timerRef.current: cleared, armed, due, fired
  timerDuration,     \* the duration the callback of that interval captured, or NoTime
  firstDuration,     \* the duration when the component began recording, NoTime when idle
  sinceStart,        \* Date.now() - startTimeRef.current, NoTime while the ref is null
  audioContextRef,   \* useRef: "none", "open", "closed"
  sessions,          \* one record per call of startRecording
  lastStop           \* who called stop() on a recorder last: "", toggle, timer

vars ==
  << mounted, onDataRecorded, duration, compressionLevel, isTypeSupported,
     isRecording, error, isSupported, mediaRecorderRef, audioChunksRef,
     streamRef, timerRef, timerDuration, firstDuration, sinceStart,
     audioContextRef, sessions, lastStop >>

props == << onDataRecorded, compressionLevel, isTypeSupported, isSupported >>

Ids == 1..Len(sessions)

Max(a, b) == IF a >= b THEN a ELSE b

RECURSIVE SumSizes(_)
SumSizes(chunks) ==
  IF chunks = <<>> THEN 0 ELSE Head(chunks).size + SumSizes(Tail(chunks))

\* a size that drops the fraction
RoundKBDown(bytes) == bytes \div BytesPerKB

\* Math.round(x / 1024) for a byte count x >= 0: halves round up
RoundKB(bytes) == (2 * bytes + BytesPerKB) \div (2 * BytesPerKB)

\* the object passed to onDataRecorded when recording starts
ProvisionalArtifact ==
  [blob |-> <<>>, url |-> "", type |-> "audio/wav", isRecording |-> TRUE, size |-> 0]

\* a state setter does nothing once the component is unmounted
SetState(current, value) == IF mounted THEN value ELSE current

\* the countdown effect with dependencies [isRecording, duration]: when a
\* dependency changed, its cleanup clears the interval and it sets a new one
\* while recording
TimerEffect(nextRecording, nextDuration) ==
  IF nextRecording = isRecording /\ nextDuration = duration
  THEN timerRef
  ELSE IF nextRecording THEN "armed" ELSE "cleared"

\* an effect with the dependency [isRecording] alone: the callback keeps the
\* duration of the render that started the interval
TimerClosureStale(nextRecording, nextDuration) ==
  IF nextRecording = isRecording
  THEN timerDuration
  ELSE IF nextRecording THEN nextDuration ELSE NoTime

\* the duration prop of the render in which isRecording became true
FirstDuration(nextRecording) ==
  IF nextRecording = isRecording
  THEN firstDuration
  ELSE IF nextRecording THEN duration ELSE NoTime

\* the duration in the closure of the callback the countdown effect sets up
TimerClosure(nextRecording, nextDuration) ==
  IF nextRecording = isRecording /\ nextDuration = duration
  THEN timerDuration
  ELSE IF nextRecording THEN nextDuration ELSE NoTime

\* elapsedTime of the interval callback
ElapsedTime == IF sinceStart # NoTime THEN sinceStart \div MsPerSecond ELSE 0

\* newRemainingTime of the interval callback
NewRemainingTime == Max(0, timerDuration - ElapsedTime)

\* the component after its first render and its mount effects
Mounted ==
  /\ mounted = TRUE
  /\ duration \in Durations
  /\ isRecording = FALSE
  /\ isSupported \in BOOLEAN
  /\ error = IF isSupported THEN Null ELSE UnsupportedMessage
  /\ mediaRecorderRef = NoRef
  /\ audioChunksRef = <<>>
  /\ streamRef = NoRef
  /\ timerRef = "cleared"
  /\ timerDuration = NoTime
  /\ firstDuration = NoTime
  /\ sinceStart = NoTime
  /\ sessions = <<>>
  /\ lastStop = ""

\* a caller that passes a callback or none, and a compression level it leaves
\* out or spells wrongly, on a platform that records webm
Init ==
  /\ Mounted
  /\ onDataRecorded \in BOOLEAN
  /\ \E prop \in {Undefined, "ultra"} : compressionLevel = DefaultCompressionLevel(prop)
  /\ isTypeSupported = {"audio/webm", "audio/mp4"}
  /\ audioContextRef = "open"

\* every compression level on every platform
ConfigInit ==
  /\ Mounted
  /\ onDataRecorded \in BOOLEAN
  /\ \E prop \in LevelProps : compressionLevel = DefaultCompressionLevel(prop)
  /\ isTypeSupported \in Platforms
  /\ audioContextRef \in {"none", "open"}

(* ---------------- startRecording, up to the await ---------------- *)

\* the value of isRecording that the closures of this call see
ClosureIsRecording == isRecording

NewSession ==
  [ request |-> "pending",      \* the getUserMedia promise
    stream |-> "none",          \* the MediaStream: none, live, stopped
    encoder |-> "none",         \* the MediaRecorder: none, recording, stopping, inactive
    isRecording |-> ClosureIsRecording,
    setting |-> [mimeType |-> "", audioBitsPerSecond |-> Unset],
    mimeType |-> "",            \* options.mimeType
    audioBitsPerSecond |-> Unset,   \* options.audioBitsPerSecond
    calls |-> IF onDataRecorded THEN << ProvisionalArtifact >> ELSE <<>>,
    pushed |-> 0,               \* chunks this recorder added to the chunk list
    threw |-> FALSE,            \* a call of stop() on this recorder threw
    chunksAtStop |-> -1 ]       \* length of the chunk list seen by onstop

startRecording ==
  /\ error' = Null
  /\ audioChunksRef' = <<>>
  /\ sessions' = Append(sessions, NewSession)
  /\ sinceStart' = 0
  /\ UNCHANGED << mounted, duration, props, isRecording, mediaRecorderRef,
                  streamRef, timerRef, timerDuration, firstDuration, audioContextRef,
                  lastStop >>

(* ---------------- stopRecording ---------------- *)

\* mediaRecorderRef.current.stop(): a recording MediaRecorder stops and will fire
\* its stop event; on an inactive one stop() throws, which is caught and logged
StopEncoder(ss, m) ==
  IF ss[m].encoder = "recording"
  THEN [ss EXCEPT ![m].encoder = "stopping"]
  ELSE [ss EXCEPT ![m].threw = TRUE]

StopGuard == mediaRecorderRef # NoRef /\ isRecording

\* by: the caller, "toggle" for the button and "timer" for the interval callback
stopRecording(by) ==
  /\ IF StopGuard
     THEN /\ sessions' = StopEncoder(sessions, mediaRecorderRef)
          /\ isRecording' = FALSE
          /\ timerRef' = "cleared"
          /\ timerDuration' = NoTime
          /\ firstDuration' = NoTime
          /\ lastStop' = by
     ELSE /\ timerRef' = IF by = "timer" THEN "fired" ELSE timerRef
          /\ UNCHANGED << sessions, isRecording, timerDuration, firstDuration,
                          lastStop >>
  /\ UNCHANGED << mounted, duration, props, error, mediaRecorderRef,
                  audioChunksRef, streamRef, sinceStart, audioContextRef >>

(* ---------------- the button ---------------- *)

\* a component that renders its button whatever the probe found
ButtonRenderedAlways == TRUE

\* the button is rendered unless the probe found no getUserMedia
ButtonRendered == isSupported

toggleRecording ==
  /\ mounted
  /\ ButtonRendered
  /\ IF isRecording THEN stopRecording("toggle") ELSE startRecording

(* ---------------- startRecording, after the await ---------------- *)

\* a catch block that reports the error and leaves isRecording as it is
StartCatchKeepsRecording(ss) ==
  /\ sessions' = ss
  /\ error' = SetState(error, MicrophoneMessage)
  /\ UNCHANGED << isRecording, timerRef, timerDuration, firstDuration, mediaRecorderRef >>

\* the catch block of startRecording
StartCatch(ss) ==
  /\ sessions' = ss
  /\ error' = SetState(error, MicrophoneMessage)
  /\ isRecording' = SetState(isRecording, FALSE)
  /\ timerRef' = TimerEffect(SetState(isRecording, FALSE), duration)
  /\ timerDuration' = TimerClosure(SetState(isRecording, FALSE), duration)
  /\ firstDuration' = FirstDuration(SetState(isRecording, FALSE))
  /\ UNCHANGED << mediaRecorderRef >>

\* new MediaRecorder(stream, options), the handlers, start(1000), setIsRecording(true)
StartEncoder(ss, s) ==
  /\ sessions' =
       [ss EXCEPT ![s].encoder = "recording",
                  ![s].setting = compressionSettings[compressionLevel],
                  ![s].mimeType = getSupportedMimeType(compressionLevel, isTypeSupported),
                  ![s].audioBitsPerSecond = RecorderBitrate(compressionLevel)]
  /\ mediaRecorderRef' = s
  /\ isRecording' = SetState(isRecording, TRUE)
  /\ timerRef' = TimerEffect(SetState(isRecording, TRUE), duration)
  /\ timerDuration' = TimerClosure(SetState(isRecording, TRUE), duration)
  /\ firstDuration' = FirstDuration(SetState(isRecording, TRUE))
  /\ UNCHANGED << error >>

\* getUserMedia resolves for the call s: the rest of the try block runs
GetUserMediaGranted(s) ==
  /\ sessions[s].request = "pending"
  /\ streamRef' = s
  /\ LET ss == [sessions EXCEPT ![s].request = "granted", ![s].stream = "live"]
     IN IF SettingThrows(compressionLevel)
        THEN StartCatch(ss)
        ELSE StartEncoder(ss, s)
  /\ UNCHANGED << mounted, duration, props, audioChunksRef, sinceStart,
                  audioContextRef, lastStop >>

\* getUserMedia rejects for the call s
GetUserMediaDenied(s) ==
  /\ sessions[s].request = "pending"
  /\ StartCatch([sessions EXCEPT ![s].request = "denied"])
  /\ UNCHANGED << mounted, duration, props, audioChunksRef, streamRef,
                  sinceStart, audioContextRef, lastStop >>

(* ---------------- the handlers of a MediaRecorder ---------------- *)

\* mediaRecorder.ondataavailable of the call s, with event.data.size = size
Pushed(chunks, s, size) ==
  IF size > 0 THEN Append(chunks, [rec |-> s, size |-> size]) ELSE chunks

ondataavailable(s, size) ==
  /\ sessions[s].encoder = "recording"
  /\ audioChunksRef' = Pushed(audioChunksRef, s, size)
  /\ sessions' = [sessions EXCEPT ![s].pushed = @ + (IF size > 0 THEN 1 ELSE 0)]
  /\ UNCHANGED << mounted, duration, props, isRecording, error, mediaRecorderRef,
                  streamRef, timerRef, timerDuration, firstDuration, sinceStart,
                  audioContextRef, lastStop >>

\* an onstop that reads the state of the component when it runs
FinalIsRecordingLive(s) == isRecording

\* isRecording in the object onstop passes to onDataRecorded
FinalIsRecording(s) == sessions[s].isRecording

\* an onstop that assembles a Blob from an empty chunk list too
HasRecordingAlways(chunks) == Len(chunks) >= 0

\* onstop assembles a Blob when the chunk list is not empty
HasRecording(chunks) == Len(chunks) > 0

FinalArtifact(s, chunks) ==
  [ blob |-> chunks,
    url |-> "blob:",
    type |-> IF sessions[s].mimeType # "" THEN sessions[s].mimeType ELSE "audio/wav",
    isRecording |-> FinalIsRecording(s),
    size |-> RoundKB(SumSizes(chunks)) ]

\* a handler that leaves the tracks running
StopTracksNever(ss) == ss

\* streamRef.current.getTracks().forEach(track => track.stop())
StopTracks(ss) ==
  IF streamRef # NoRef THEN [ss EXCEPT ![streamRef].stream = "stopped"] ELSE ss

\* the last dataavailable event of the recorder of the call s, with
\* event.data.size = size, and then its stop event
StopEvents(s, size) ==
  /\ LET chunks == Pushed(audioChunksRef, s, size)
         emits == HasRecording(chunks) /\ onDataRecorded
         ss == [sessions EXCEPT
                  ![s].encoder = "inactive",
                  ![s].pushed = @ + (IF size > 0 THEN 1 ELSE 0),
                  ![s].chunksAtStop = Len(chunks),
                  ![s].calls = IF emits THEN Append(@, FinalArtifact(s, chunks)) ELSE @]
     IN /\ audioChunksRef' = chunks
        /\ sessions' = StopTracks(ss)
  /\ UNCHANGED << mounted, duration, props, isRecording, error, mediaRecorderRef,
                  streamRef, timerRef, timerDuration, firstDuration, sinceStart,
                  audioContextRef, lastStop >>

\* the task MediaRecorder.stop() queued for the recorder of the call s
onstop(s, size) ==
  /\ sessions[s].encoder = "stopping"
  /\ StopEvents(s, size)

\* the platform stops the recorder of the call s by itself, after an error of
\* the encoder: one task makes the recorder inactive and fires its last
\* dataavailable event and its stop event
EncoderFault(s, size) ==
  /\ sessions[s].encoder = "recording"
  /\ StopEvents(s, size)

(* ---------------- the countdown ---------------- *)

\* an interval callback that waits for the remaining time to fall below 0
TimeIsUpBelowZero == NewRemainingTime < 0

\* the interval callback stops the recording when this holds
TimeIsUp == NewRemainingTime <= 0

Tick ==
  /\ timerRef = "due"
  /\ IF TimeIsUp
     THEN stopRecording("timer")
     ELSE /\ timerRef' = "fired"
          /\ UNCHANGED << mounted, duration, props, isRecording, error, timerDuration,
                          firstDuration,
                          mediaRecorderRef, audioChunksRef, streamRef, sinceStart,
                          audioContextRef, sessions, lastStop >>

\* ClockStep ms pass; a live interval becomes due and fires before more time
\* passes (the firings in between read an earlier clock and the same props).
\* The clock is read by the interval callback alone and startRecording sets
\* it back: it is left alone while no interval is live and no call is waiting
\* for its device.
AdvanceTime ==
  /\ mounted
  /\ sinceStart # NoTime
  /\ timerRef # "cleared" \/ \E s \in Ids : sessions[s].request = "pending"
  /\ sinceStart < MaxSteps * ClockStep
  /\ timerRef # "due"
  /\ sinceStart' = sinceStart + ClockStep
  /\ timerRef' = IF timerRef = "cleared" THEN "cleared" ELSE "due"
  /\ UNCHANGED << mounted, duration, props, isRecording, error, mediaRecorderRef,
                  timerDuration, firstDuration,
                  audioChunksRef, streamRef, audioContextRef, sessions, lastStop >>

(* ---------------- the parent ---------------- *)

\* the parent renders the component with another duration
SetDuration(d) ==
  /\ mounted
  /\ d # duration
  /\ duration' = d
  /\ timerRef' = TimerEffect(isRecording, d)
  /\ timerDuration' = TimerClosure(isRecording, d)
  /\ UNCHANGED firstDuration
  /\ UNCHANGED << mounted, props, isRecording, error, mediaRecorderRef,
                  audioChunksRef, streamRef, sinceStart, audioContextRef, sessions, lastStop >>

\* the cleanups of the effects
Unmount ==
  /\ mounted
  /\ mounted' = FALSE
  /\ timerRef' = "cleared"
  /\ timerDuration' = NoTime
  /\ firstDuration' = NoTime
  /\ sessions' = StopTracks(sessions)
  /\ audioContextRef' = IF audioContextRef = "open" THEN "closed" ELSE audioContextRef
  /\ UNCHANGED << duration, props, isRecording, error, mediaRecorderRef,
                  audioChunksRef, streamRef, sinceStart, lastStop >>

\* the user clicks; at most limit clicks of a run start a recording
Click(limit) ==
  /\ isRecording \/ Len(sessions) < limit
  /\ toggleRecording

Granted == \E s \in Ids : GetUserMediaGranted(s)
Denied == \E s \in Ids : GetUserMediaDenied(s)
\* an event with data is delivered while the chunk list has fewer than limit chunks
ChunkFits(size, limit) == size > 0 => Len(audioChunksRef) < limit

DataAvailable ==
  \E s \in Ids, size \in ChunkSizes : ChunkFits(size, MaxChunks) /\ ondataavailable(s, size)
Stopped ==
  \E s \in Ids, size \in ChunkSizes : ChunkFits(size, MaxChunks) /\ onstop(s, size)
BlobDataAvailable ==
  \E s \in Ids, size \in BlobSizes : ChunkFits(size, MaxBlobChunks) /\ ondataavailable(s, size)
BlobStopped ==
  \E s \in Ids, size \in BlobSizes : ChunkFits(size, MaxBlobChunks) /\ onstop(s, size)
DurationChanged == \E d \in Durations : SetDuration(d)
Faulted ==
  \E s \in Ids, size \in ChunkSizes : ChunkFits(size, MaxChunks) /\ EncoderFault(s, size)

Next ==
  \/ Click(MaxSessions)
  \/ Granted
  \/ Denied
  \/ DataAvailable
  \/ Stopped
  \/ Tick
  \/ AdvanceTime
  \/ DurationChanged
  \/ Unmount

Spec == Init /\ [][Next]_vars

\* the start and the stop of a recording under every configuration
ConfigNext ==
  \/ Click(MaxConfigSessions)
  \/ Granted
  \/ Denied
  \/ DataAvailable
  \/ Stopped

ConfigSpec == ConfigInit /\ [][ConfigNext]_vars

\* recordings of several chunks of several sizes
BlobNext ==
  \/ Click(MaxConfigSessions)
  \/ Granted
  \/ Denied
  \/ BlobDataAvailable
  \/ BlobStopped

BlobSpec == Init /\ [][BlobNext]_vars

\* the component on a platform whose encoder can fail
FaultNext ==
  \/ Click(MaxConfigSessions)
  \/ Granted
  \/ Denied
  \/ DataAvailable
  \/ Stopped
  \/ Tick
  \/ AdvanceTime
  \/ DurationChanged
  \/ Unmount
  \/ Faulted

FaultSpec == Init /\ [][FaultNext]_vars


(* ---------------- the claims ---------------- *)

\* the object is one that onstop built
IsFinal(artifact) == artifact.url # ""

Live == {s \in Ids : sessions[s].stream = "live"}
Encoding == {s \in Ids : sessions[s].encoder \in {"recording", "stopping"}}

\* C1: a cycle that was granted a device, added at least one non-empty chunk
\* and whose stop event has been handled has called onDataRecorded exactly
\* twice: with the provisional object, then with the final one.
C1_TwoCallsPerCycle ==
  onDataRecorded =>
    \A s \in Ids :
      (sessions[s].encoder = "inactive" /\ sessions[s].pushed >= 1) =>
        /\ Len(sessions[s].calls) = 2
        /\ sessions[s].calls[1] = ProvisionalArtifact
        /\ IsFinal(sessions[s].calls[2])

\* C2: at most one MediaStream is open and at most one MediaRecorder is
\* active at any time.
C2_OneSession == Cardinality(Live) <= 1 /\ Cardinality(Encoding) <= 1

\* C3: once the stop event of a call's MediaRecorder has been handled, the
\* MediaStream granted to that call is stopped.
C3_DeviceReleasedAfterStop ==
  \A s \in Ids : sessions[s].encoder = "inactive" => sessions[s].stream = "stopped"

\* C4: after the unmount no MediaStream is open.
C4_NoDeviceAfterUnmount == ~mounted => Live = {}

C6_FailedStart ==
  [][ /\ (mounted /\ (Denied \/ (Granted /\ SettingThrows(compressionLevel)))) =>
           (error' = MicrophoneMessage /\ ~isRecording')
      /\ (toggleRecording /\ error # Null /\ ~isRecording) =>
           /\ error' = Null
           /\ ~isRecording'
           /\ Len(sessions') = Len(sessions) + 1
           /\ sessions'[Len(sessions')].request = "pending" ]_vars

C6_Witness ==
  /\ Len(sessions) = 2
  /\ sessions[1].request \in {"denied", "granted"} /\ sessions[1].encoder = "none"
  /\ sessions[2].request = "pending"
  /\ error = Null /\ ~isRecording

\* C7: every final object passed to onDataRecorded has isRecording = false.
C7_FinalNotRecording ==
  \A s \in Ids : \A i \in DOMAIN sessions[s].calls :
    IsFinal(sessions[s].calls[i]) => sessions[s].calls[i].isRecording = FALSE

C7_Witness ==
  \E s \in Ids :
    /\ Len(sessions[s].calls) = 2
    /\ IsFinal(sessions[s].calls[2])
    /\ isRecording

\* C8, as claimed: a cycle whose stop event finds the chunk list empty has
\* not called onDataRecorded at all.
C8_NoCallForEmptyStop ==
  \A s \in Ids : sessions[s].chunksAtStop = 0 => sessions[s].calls = <<>>

\* C8, amended: a cycle whose stop event finds the chunk list empty has
\* called onDataRecorded once, with the provisional object, and never with a
\* final one.
C8_OnlyProvisionalForEmptyStop ==
  onDataRecorded =>
    \A s \in Ids :
      sessions[s].chunksAtStop = 0 => sessions[s].calls = << ProvisionalArtifact >>

C8_Witness ==
  /\ onDataRecorded
  /\ \E s \in Ids :
       /\ sessions[s].chunksAtStop = 0
       /\ sessions[s].encoder = "inactive"
       /\ sessions[s].calls = << ProvisionalArtifact >>

\* C9: with a compressionLevel outside the four levels, a start that is
\* granted its device records with the medium settings and reports no error.
C9_UnknownLevelIsMedium ==
  compressionLevel \notin Levels =>
    \A s \in Ids :
      sessions[s].request = "granted" =>
        /\ sessions[s].encoder # "none"
        /\ sessions[s].setting = [mimeType |-> "audio/webm", audioBitsPerSecond |-> 64000]
        /\ sessions[s].audioBitsPerSecond = 64000

\* C10: the settings a MediaRecorder was created from are the documented pair
\* of the level, and it was given a bitrate exactly when the level is not none.
Documented(level) ==
  CASE level = "none"   -> [mimeType |-> "audio/wav",  audioBitsPerSecond |-> Unset]
    [] level = "low"    -> [mimeType |-> "audio/webm", audioBitsPerSecond |-> 96000]
    [] level = "medium" -> [mimeType |-> "audio/webm", audioBitsPerSecond |-> 64000]
    [] level = "high"   -> [mimeType |-> "audio/webm", audioBitsPerSecond |-> 32000]

C10_DocumentedHint ==
  \A s \in Ids :
    (sessions[s].encoder # "none" /\ compressionLevel \in Levels) =>
      /\ sessions[s].setting = Documented(compressionLevel)
      /\ (sessions[s].audioBitsPerSecond # Unset) <=> (compressionLevel # "none")
      /\ sessions[s].audioBitsPerSecond = Documented(compressionLevel).audioBitsPerSecond

C10_Witness ==
  \E s \in Ids :
    /\ compressionLevel = "high"
    /\ sessions[s].encoder = "recording"
    /\ sessions[s].audioBitsPerSecond = 32000

\* C11: for each of the four levels and each set of supported types, a start
\* that was granted its device did not fail and created its MediaRecorder with
\* the level's own type when that is supported, else with the first supported
\* type of webm, ogg, mp4, wav, else with the empty string.
Preferred(level) == IF level = "none" THEN "audio/wav" ELSE "audio/webm"

Resolved(level, supported) ==
  CASE Preferred(level) \in supported -> Preferred(level)
    [] OTHER ->
       CASE "audio/webm" \in supported -> "audio/webm"
         [] "audio/ogg" \in supported  -> "audio/ogg"
         [] "audio/mp4" \in supported  -> "audio/mp4"
         [] "audio/wav" \in supported  -> "audio/wav"
         [] OTHER -> ""

C11_ResolvedMimeType ==
  compressionLevel \in Levels =>
    \A s \in Ids :
      sessions[s].request = "granted" =>
        /\ sessions[s].encoder # "none"
        /\ sessions[s].mimeType = Resolved(compressionLevel, isTypeSupported)

\* the level's type is chosen although an earlier entry of the list is supported
C11_Witness ==
  /\ compressionLevel = "none"
  /\ {"audio/webm", "audio/wav"} \subseteq isTypeSupported
  /\ \E s \in Ids : sessions[s].encoder = "recording" /\ sessions[s].mimeType = "audio/wav"

\* nothing is supported: the type is left to the browser
C11_WitnessNone ==
  /\ isTypeSupported = {}
  /\ \E s \in Ids : sessions[s].encoder = "recording" /\ sessions[s].mimeType = ""

\* C12: every object passed to onDataRecorded has a size of 0 when it is the
\* provisional one and of round(bytes / 1024) when it is a final one, bytes
\* being the byte length of its blob: the integer nearest to bytes / 1024,
\* the upper one of two equally near.
IsRounded(kb, bytes) ==
  /\ 2 * BytesPerKB * kb <= 2 * bytes + BytesPerKB
  /\ 2 * bytes + BytesPerKB < 2 * BytesPerKB * (kb + 1)

C12_SizeKilobytes ==
  \A s \in Ids : \A i \in DOMAIN sessions[s].calls :
    LET artifact == sessions[s].calls[i]
    IN IF IsFinal(artifact)
       THEN IsRounded(artifact.size, SumSizes(artifact.blob))
       ELSE artifact.size = 0 /\ artifact.blob = <<>>

\* two chunks that add up to half a KB: the size is 1
C12_Witness ==
  \E s \in Ids : \E i \in DOMAIN sessions[s].calls :
    LET artifact == sessions[s].calls[i]
    IN /\ IsFinal(artifact)
       /\ Len(artifact.blob) = 2
       /\ SumSizes(artifact.blob) = 512
       /\ artifact.size = 1

\* C13: a component whose probe found no getUserMedia stays unsupported: it
\* shows the message, it has started no recording and asked for no device,
\* it is not recording, it has no interval, and it has called onDataRecorded
\* never; no step changes that.
C13_UnsupportedForLife ==
  /\ [](~isSupported =>
          /\ sessions = <<>>
          /\ ~isRecording
          /\ error = UnsupportedMessage
          /\ mediaRecorderRef = NoRef /\ streamRef = NoRef
          /\ timerRef = "cleared")
  /\ [][~isSupported => (~isSupported' /\ sessions' = <<>> /\ ~toggleRecording)]_vars

\* an unsupported component that lived until its unmount
C13_Witness ==
  /\ ~isSupported
  /\ ~mounted
  /\ sessions = <<>>
  /\ error = UnsupportedMessage

\* C14: a call of stop() that throws leaves the component not recording and
\* its interval cleared, and once the stop event of that recorder has been
\* handled the MediaStream granted to its call is stopped.
StopThrew == \E s \in Ids : ~sessions[s].threw /\ sessions'[s].threw

C14_FaultSwallowed == [][StopThrew => (~isRecording' /\ timerRef' = "cleared")]_vars

C14_FaultReleasesDevice ==
  \A s \in Ids :
    (sessions[s].threw /\ sessions[s].encoder = "inactive") => sessions[s].stream = "stopped"

C14_FaultTornDown == C14_FaultSwallowed /\ []C14_FaultReleasesDevice

\* the encoder failed, the click on Stop made stop() throw, and the component
\* is idle with its stream stopped
C14_Witness ==
  /\ mounted /\ ~isRecording /\ timerRef = "cleared" /\ error = Null
  /\ mediaRecorderRef # NoRef
  /\ sessions[mediaRecorderRef].threw
  /\ sessions[mediaRecorderRef].encoder = "inactive"
  /\ sessions[mediaRecorderRef].stream = "stopped"
  /\ lastStop = "toggle"

\* C15: the blob of every final object is made of the non-empty chunks that
\* the recorder of its own call delivered since the call started, all of
\* them, in the order of their arrival.
C15_BlobIsOwnChunks ==
  \A s \in Ids : \A i \in DOMAIN sessions[s].calls :
    LET artifact == sessions[s].calls[i]
    IN IsFinal(artifact) =>
         /\ \A k \in DOMAIN artifact.blob : artifact.blob[k].rec = s
         /\ Len(artifact.blob) = sessions[s].pushed

C16_WitnessShortened ==
  /\ mounted /\ isRecording
  /\ timerRef = "due"
  /\ duration <= ElapsedTime
  /\ ElapsedTime < firstDuration

\* C17: while the mounted component is recording, the call whose recorder it
\* holds was granted a MediaStream that is still live and has created its
\* MediaRecorder; and it is not recording while a getUserMedia request is
\* pending.
Pending == {s \in Ids : sessions[s].request = "pending"}

C17_RecordingHoldsDevice ==
  mounted =>
    /\ isRecording =>
          /\ mediaRecorderRef # NoRef
          /\ sessions[mediaRecorderRef].request = "granted"
          /\ sessions[mediaRecorderRef].stream = "live"
          /\ sessions[mediaRecorderRef].encoder # "none"
    /\ Pending # {} => ~isRecording

\* C18: the interval fires only while the mounted component is recording,
\* and a recorder adds a chunk to the chunk list only while the component is
\* mounted and before the stop event of that recorder has been handled.
ChunkAccepted(s) == sessions'[s].pushed > sessions[s].pushed

C18_TickOnlyWhileRecording == [][Tick => (mounted /\ isRecording)]_vars

C18_ChunkOnlyBeforeTeardown ==
  [][\A s \in Ids : ChunkAccepted(s) => (mounted /\ sessions[s].encoder # "inactive")]_vars

C18_NoCallbackAfterTeardown == C18_TickOnlyWhileRecording /\ C18_ChunkOnlyBeforeTeardown

\* C19: once a call of startRecording has come to its end (its request was
\* denied, its start threw, or the stop event of its recorder has been
\* handled), the last object it passed to onDataRecorded, if it passed one,
\* has isRecording = false.
Ended(s) ==
  \/ sessions[s].request = "denied"
  \/ sessions[s].request = "granted" /\ sessions[s].encoder \in {"none", "inactive"}

C19_ProvisionalIsFollowed ==
  \A s \in Ids :
    (Ended(s) /\ sessions[s].calls # <<>>) =>
      sessions[s].calls[Len(sessions[s].calls)].isRecording = FALSE

\* C20: the calls of startRecording are isolated from each other: the blob
\* of a final object holds chunks of the recorder of its own call only, and
\* the stop event of one call's recorder leaves the MediaStream of every
\* other call as it is.
StopHandled(s) == sessions[s].encoder # "inactive" /\ sessions'[s].encoder = "inactive"

C20_OwnChunksOnly ==
  \A s \in Ids : \A i \in DOMAIN sessions[s].calls :
    \A k \in DOMAIN sessions[s].calls[i].blob : sessions[s].calls[i].blob[k].rec = s

C20_OwnDeviceOnly ==
  [][\A s \in Ids : StopHandled(s) =>
       \A t \in Ids \ {s} : sessions'[t].stream = sessions[t].stream]_vars

C20_SessionsIsolated == []C20_OwnChunksOnly /\ C20_OwnDeviceOnly

====
